---- MODULE Spec2Model ----
(***************************************************************************)
(* AUnit: the Test base class (src/aunit/Test.h), its registry (an         *)
(* intrusive singly linked list), the two per-test state machines          *)
(* (LifeCycle and Status) and the meta-assertion macros                    *)
(* (src/aunit/MetaAssertion.h).                                            *)
(*                                                                         *)
(* Test objects live in the sequence `test`; the index of an object is its *)
(* address and also its rank in construction order.  0 is nullptr.         *)
(* Bodies that are declared in the headers but defined elsewhere           *)
(* (Test::Test, Test::insert, Test::getRoot, Test::setPassOrFail,          *)
(* MetaAssertion::assertionTestStatus) and the external driver are         *)
(* modelled from the specification text.                                   *)
(***************************************************************************)
EXTENDS Integers, Sequences, FiniteSets, TLC

\* ------------------------------------------------------------------ bounds
\* Tests declared.
MaxTests == 2

\* Largest column passed to displayMinPosition.
MaxPos == 2

\* Largest verbosity mask and flag set tried by SpecVerbosity.
MaxMask == 15

\* The test names used by the declarations: not sorted, of different lengths.
Names == { <<2>>, <<1, 1>>, <<1, 2, 1>> }

\* The verbosity flags passed to enableVerbosity / disableVerbosity.
Flags == { 1 }

\* ------------------------------------------------------------- enum values
LifeCycle == { "New", "Excluded", "Setup", "Asserted", "Finished" }

Status == { "Unknown", "Passed", "Failed", "Skipped", "Expired" }

nullptr == 0

kNone == 0

VARIABLES test, root, maxLength, running, hook, last

vars == << test, root, maxLength, running, hook, last >>

\* ------------------------------------------------------------ Test methods
\* Each method takes the object (`obj`, the fields of *this) and returns the
\* object after the call, or the value the call returns.

getLifeCycle(obj) == obj.mLifeCycle

setLifeCycle_ClearsStatus(obj, state) ==
    [obj EXCEPT !.mLifeCycle = state, !.mStatus = "Unknown"]

setLifeCycle(obj, state) == [obj EXCEPT !.mLifeCycle = state]

getStatus(obj) == obj.mStatus

setStatus_NoPromote(obj, status) == [obj EXCEPT !.mStatus = status]

setStatus_AlwaysAsserted(obj, status) ==
    [setLifeCycle(obj, "Asserted") EXCEPT !.mStatus = status]

setStatus(obj, status) ==
    LET o1 == IF status # "Unknown" THEN setLifeCycle(obj, "Asserted") ELSE obj
    IN  [o1 EXCEPT !.mStatus = status]

setPassOrFail(obj, ok) == setStatus(obj, IF ok THEN "Passed" ELSE "Failed")

isDone_ByLifeCycle(obj) == obj.mLifeCycle \in { "Asserted", "Finished" }

isDone(obj) == obj.mStatus # "Unknown"

isNotDone(obj) == ~isDone(obj)

isPassed(obj) == obj.mStatus = "Passed"

isNotPassed_NoNegation(obj) == isPassed(obj)

isNotPassed(obj) == ~isPassed(obj)

isFailed(obj) == obj.mStatus = "Failed"

isNotFailed(obj) == ~isFailed(obj)

isSkipped(obj) == obj.mStatus = "Skipped"

isNotSkipped(obj) == ~isSkipped(obj)

isExpired(obj) == obj.mStatus = "Expired"

isNotExpired(obj) == ~isExpired(obj)

skip(obj) == setStatus(obj, "Skipped")

expire(obj) == setStatus(obj, "Expired")

fail(obj) == setStatus(obj, "Failed")

pass(obj) == setStatus(obj, "Passed")

\* Verbosity is a uint8_t bit mask: |, & and ~ on 8 bits.
RECURSIVE BitAnd(_, _)
BitAnd(a, b) ==
    IF a = 0 \/ b = 0 THEN 0
    ELSE (a % 2) * (b % 2) + 2 * BitAnd(a \div 2, b \div 2)

BitOr(a, b) == a + b - BitAnd(a, b)

BitNot(a) == 255 - a

enableVerbosity(obj, verbosity) ==
    [obj EXCEPT !.mVerbosity = BitOr(obj.mVerbosity, verbosity)]

disableVerbosity_NoComplement(obj, verbosity) ==
    [obj EXCEPT !.mVerbosity = BitAnd(obj.mVerbosity, verbosity)]

disableVerbosity(obj, verbosity) ==
    [obj EXCEPT !.mVerbosity = BitAnd(obj.mVerbosity, BitNot(verbosity))]

\* ---------------------------------------------------------------- registry
\* The registry and the statics, as one value: the objects, the root pointer
\* and Test::maxLength.
Machine == [test |-> test, root |-> root, maxLength |-> maxLength]

strlen(name) == Len(name)

FCString(name) == name

max(a, b) == IF a < b THEN b ELSE a

\* The nodes met from pointer p through the mNext links, at most `fuel` of them.
RECURSIVE WalkFrom(_, _, _)
WalkFrom(objs, p, fuel) ==
    IF p = nullptr \/ fuel = 0 THEN << >>
    ELSE << p >> \o WalkFrom(objs, objs[p].mNext, fuel - 1)

\* Test::Test(): the empty constructor; the name is set later by init.
Test == [mName |-> << >>, mLifeCycle |-> "New", mStatus |-> "Unknown",
         mVerbosity |-> kNone, mNext |-> nullptr]

insert_AtHead(m, this) ==
    [m EXCEPT !.test[this].mNext = m.root, !.root = this]

\* Test::insert(): p walks from getRoot() to the slot holding nullptr, then
\* mNext = *p; *p = this.  The registry keeps construction order.
insert(m, this) ==
    LET w    == WalkFrom(m.test, m.root, Len(m.test) + 1)
        slot == IF w = << >> THEN nullptr ELSE w[Len(w)]
        m1   == [m EXCEPT !.test[this].mNext = nullptr]
    IN  IF slot = nullptr
        THEN [m1 EXCEPT !.root = this]
        ELSE [m1 EXCEPT !.test[slot].mNext = this]

init_NoMax(m, this, name) ==
    insert([m EXCEPT !.maxLength = strlen(name),
                     !.test[this].mName = FCString(name),
                     !.test[this].mLifeCycle = "New",
                     !.test[this].mStatus = "Unknown",
                     !.test[this].mVerbosity = kNone], this)

init_NoInsert(m, this, name) ==
    [m EXCEPT !.maxLength = max(m.maxLength, strlen(name)),
              !.test[this].mName = FCString(name),
              !.test[this].mLifeCycle = "New",
              !.test[this].mStatus = "Unknown",
              !.test[this].mVerbosity = kNone]

\* Test::init(const char* name)
init(m, this, name) ==
    LET m1 == [m EXCEPT !.maxLength = max(m.maxLength, strlen(name)),
                        !.test[this].mName = FCString(name),
                        !.test[this].mLifeCycle = "New",
                        !.test[this].mStatus = "Unknown",
                        !.test[this].mVerbosity = kNone]
    IN  insert(m1, this)

initF_InsertTwice(m, this, name) ==
    insert(init([m EXCEPT !.test[this].mName = FCString(name)], this, name), this)

\* Test::init(const __FlashStringHelper* name)
initF(m, this, name) ==
    LET m1 == [m EXCEPT !.test[this].mName = FCString(name)]
    IN  init(m1, this, m1.test[this].mName)

\* The walk of the registry from the root.
RegistryWalk == WalkFrom(test, root, Len(test) + 1)

Tests == 1..Len(test)

TypeOK ==
    /\ Len(test) <= MaxTests
    /\ root \in 0..Len(test)
    /\ running \in 0..Len(test)
    /\ hook \in {"none", "setup", "loop"}
    /\ \A t \in Tests : /\ test[t].mLifeCycle \in LifeCycle
                        /\ test[t].mStatus \in Status

NoOp == [op |-> "none", self |-> 0, target |-> 0, arg |-> "", ok |-> FALSE, v |-> 0]

\* `last` records the call that has just been made, for the caller to look
\* at; a call is made when the record of the one before has been dropped.
Ready == last = NoOp

Init ==
    /\ test = << >>
    /\ root = nullptr
    /\ maxLength = 0
    /\ running = 0
    /\ hook = "none"
    /\ last = NoOp

\* A test declaration: the object is constructed and its constructor calls
\* one of the two init overloads.
Construct(name, flash) ==
    /\ Ready
    /\ running = 0
    /\ LET this == Len(test) + 1
           m0   == [Machine EXCEPT !.test = Append(test, Test)]
           m1   == IF flash THEN initF(m0, this, name) ELSE init(m0, this, name)
       IN  /\ test' = m1.test
           /\ root' = m1.root
           /\ maxLength' = m1.maxLength
    /\ last' = [NoOp EXCEPT !.op = "construct", !.self = Len(test) + 1, !.ok = flash]
    /\ UNCHANGED << running, hook >>

\* ------------------------------------------------------- meta-assertions
MetaMethods == { "isDone", "isNotDone", "isPassed", "isNotPassed", "isFailed",
                 "isNotFailed", "isSkipped", "isNotSkipped", "isExpired",
                 "isNotExpired" }

\* test_##name##_instance.method()
Call(method, obj) ==
    CASE method = "isDone"       -> isDone(obj)
      [] method = "isNotDone"    -> isNotDone(obj)
      [] method = "isPassed"     -> isPassed(obj)
      [] method = "isNotPassed"  -> isNotPassed(obj)
      [] method = "isFailed"     -> isFailed(obj)
      [] method = "isNotFailed"  -> isNotFailed(obj)
      [] method = "isSkipped"    -> isSkipped(obj)
      [] method = "isNotSkipped" -> isNotSkipped(obj)
      [] method = "isExpired"    -> isExpired(obj)
      [] method = "isNotExpired" -> isNotExpired(obj)

\* checkTestDone(name) .. checkTestNotExpire(name): the value of the call and
\* the objects after it.
checkTest(objs, name, method) ==
    [test |-> objs, value |-> Call(method, objs[name])]

\* MetaAssertion::assertionTestStatus, called on the current test: ok leaves
\* it as it is, not ok marks it Failed; the value returned is ok.
assertionTestStatus(obj, ok) ==
    IF ok THEN [obj |-> obj, value |-> TRUE]
          ELSE [obj |-> setStatus(obj, "Failed"), value |-> FALSE]

assertTestStatus_NoReturn(objs, this, name, method) ==
    LET r == assertionTestStatus(objs[this], Call(method, objs[name]))
    IN  [test |-> [objs EXCEPT ![this] = r.obj], returned |-> FALSE]

assertTestStatus_ReturnOnTrue(objs, this, name, method) ==
    LET r == assertionTestStatus(objs[this], Call(method, objs[name]))
    IN  [test |-> [objs EXCEPT ![this] = r.obj], returned |-> r.value]

assertTestStatus_OnTarget(objs, this, name, method) ==
    LET r == assertionTestStatus(objs[name], Call(method, objs[name]))
    IN  [test |-> [objs EXCEPT ![name] = r.obj], returned |-> ~r.value]

\* assertTestStatus(name, method, message), expanded in a method of test
\* `this`: if (!assertionTestStatus(..., test_name_instance.method())) return;
assertTestStatus(objs, this, name, method) ==
    LET r == assertionTestStatus(objs[this], Call(method, objs[name]))
    IN  [test |-> [objs EXCEPT ![this] = r.obj], returned |-> ~r.value]

\* ------------------------------------------------------------------ driver
\* What the driver does with a test when one of its hooks has returned:
\* after setup() a test that is still New becomes Setup.
afterHook(obj, h) ==
    IF h = "setup" /\ getLifeCycle(obj) = "New"
    THEN setLifeCycle(obj, "Setup")
    ELSE obj

exclude_SetsSkipped(obj) == setLifeCycle(setStatus(obj, "Skipped"), "Excluded")

exclude(obj) == setLifeCycle(obj, "Excluded")

include(obj) == setLifeCycle(obj, "New")

Label(op, self) == [NoOp EXCEPT !.op = op, !.self = self]

\* exclude: New -> Excluded
Exclude(t) ==
    /\ Ready
    /\ running = 0
    /\ getLifeCycle(test[t]) = "New"
    /\ test' = [test EXCEPT ![t] = exclude(@)]
    /\ last' = Label("exclude", t)
    /\ UNCHANGED << root, maxLength, running, hook >>

\* include: Excluded -> New
Include(t) ==
    /\ Ready
    /\ running = 0
    /\ getLifeCycle(test[t]) = "Excluded"
    /\ test' = [test EXCEPT ![t] = include(@)]
    /\ last' = Label("include", t)
    /\ UNCHANGED << root, maxLength, running, hook >>

\* The driver enters setup() of a New test.
DriverSetup(t) ==
    /\ Ready
    /\ running = 0
    /\ getLifeCycle(test[t]) = "New"
    /\ running' = t
    /\ hook' = "setup"
    /\ last' = Label("setup", t)
    /\ UNCHANGED << test, root, maxLength >>

\* The driver enters loop() of a test in Setup.
DriverLoop(t) ==
    /\ Ready
    /\ running = 0
    /\ getLifeCycle(test[t]) = "Setup"
    /\ running' = t
    /\ hook' = "loop"
    /\ last' = Label("loop", t)
    /\ UNCHANGED << test, root, maxLength >>

\* The running hook reaches the end of its body.
Return ==
    /\ Ready
    /\ running # 0
    /\ test' = [test EXCEPT ![running] = afterHook(@, hook)]
    /\ running' = 0
    /\ hook' = "none"
    /\ last' = Label("return", running)
    /\ UNCHANGED << root, maxLength >>

\* Asserted -> Finished: the driver calls teardown() and finishes the test.
DriverTeardown(t) ==
    /\ Ready
    /\ running = 0
    /\ getLifeCycle(test[t]) = "Asserted"
    /\ test' = [test EXCEPT ![t] = setLifeCycle(@, "Finished")]
    /\ last' = Label("teardown", t)
    /\ UNCHANGED << root, maxLength, running, hook >>

DriverFinishExcluded_RunsSetup(t) ==
    /\ Ready
    /\ running = 0
    /\ getLifeCycle(test[t]) = "Excluded"
    /\ running' = t
    /\ hook' = "setup"
    /\ last' = Label("setup", t)
    /\ UNCHANGED << test, root, maxLength >>

\* Excluded -> Finished: setup() and teardown() are bypassed.
DriverFinishExcluded(t) ==
    /\ Ready
    /\ running = 0
    /\ getLifeCycle(test[t]) = "Excluded"
    /\ test' = [test EXCEPT ![t] = setLifeCycle(@, "Finished")]
    /\ last' = Label("finishExcluded", t)
    /\ UNCHANGED << root, maxLength, running, hook >>

\* ------------------------------------------------- calls of the Test API
\* A public method of test t is called by t's own running hook or, while no
\* hook runs, by the code around the driver.
Callable(t) == running = 0 \/ running = t

SetStatus(t, s) ==
    /\ Ready
    /\ Callable(t)
    /\ test' = [test EXCEPT ![t] = setStatus(@, s)]
    /\ last' = [Label("setStatus", t) EXCEPT !.arg = s]
    /\ UNCHANGED << root, maxLength, running, hook >>

SetPassOrFail(t, ok) ==
    /\ Ready
    /\ Callable(t)
    /\ test' = [test EXCEPT ![t] = setPassOrFail(@, ok)]
    /\ last' = [Label("setPassOrFail", t) EXCEPT !.ok = ok]
    /\ UNCHANGED << root, maxLength, running, hook >>

Skip(t) ==
    /\ Ready
    /\ Callable(t)
    /\ test' = [test EXCEPT ![t] = skip(@)]
    /\ last' = [Label("skip", t) EXCEPT !.arg = "Skipped"]
    /\ UNCHANGED << root, maxLength, running, hook >>

Expire(t) ==
    /\ Ready
    /\ Callable(t)
    /\ test' = [test EXCEPT ![t] = expire(@)]
    /\ last' = [Label("expire", t) EXCEPT !.arg = "Expired"]
    /\ UNCHANGED << root, maxLength, running, hook >>

\* fail() and pass() are protected: only the test's own hooks call them.
Fail(t) ==
    /\ Ready
    /\ running = t
    /\ test' = [test EXCEPT ![t] = fail(@)]
    /\ last' = [Label("fail", t) EXCEPT !.arg = "Failed"]
    /\ UNCHANGED << root, maxLength, running, hook >>

Pass(t) ==
    /\ Ready
    /\ running = t
    /\ test' = [test EXCEPT ![t] = pass(@)]
    /\ last' = [Label("pass", t) EXCEPT !.arg = "Passed"]
    /\ UNCHANGED << root, maxLength, running, hook >>

EnableVerbosity(t, v) ==
    /\ Ready
    /\ Callable(t)
    /\ test' = [test EXCEPT ![t] = enableVerbosity(@, v)]
    /\ last' = [Label("enableVerbosity", t) EXCEPT !.v = v]
    /\ UNCHANGED << root, maxLength, running, hook >>

DisableVerbosity(t, v) ==
    /\ Ready
    /\ Callable(t)
    /\ test' = [test EXCEPT ![t] = disableVerbosity(@, v)]
    /\ last' = [Label("disableVerbosity", t) EXCEPT !.v = v]
    /\ UNCHANGED << root, maxLength, running, hook >>

\* static void displayMinPosition(size_t pos) { maxLength = pos; }
DisplayMinPosition(pos) ==
    /\ Ready
    /\ maxLength' = pos
    /\ last' = [Label("displayMinPosition", 0) EXCEPT !.v = pos]
    /\ UNCHANGED << test, root, running, hook >>

\* checkTestXxx(name) in a hook of test b: the value is used by the body,
\* which goes on.
CheckTest(b, a, method) ==
    /\ Ready
    /\ running = b
    /\ LET r == checkTest(test, a, method)
       IN  /\ test' = r.test
           /\ last' = [Label("checkTest", b) EXCEPT
                          !.target = a, !.arg = method, !.ok = r.value]
    /\ UNCHANGED << root, maxLength, running, hook >>

\* assertTestXxx(name) in a hook of test b: on failure the hook returns to
\* the driver.
AssertTest(b, a, method) ==
    /\ Ready
    /\ running = b
    /\ LET r == assertTestStatus(test, b, a, method)
       IN  /\ test' = IF r.returned
                      THEN [r.test EXCEPT ![b] = afterHook(@, hook)]
                      ELSE r.test
           /\ running' = IF r.returned THEN 0 ELSE running
           /\ hook' = IF r.returned THEN "none" ELSE hook
           /\ last' = [Label("assertTest", b) EXCEPT
                          !.target = a, !.arg = method, !.ok = ~r.returned]
    /\ UNCHANGED << root, maxLength >>

\* A predicate of test t is called by the code around the driver.
Query(t, method) ==
    /\ Ready
    /\ running = 0
    /\ LET r == checkTest(test, t, method)
       IN  /\ test' = r.test
           /\ last' = [Label("query", 0) EXCEPT
                          !.target = t, !.arg = method, !.ok = r.value]
    /\ UNCHANGED << root, maxLength, running, hook >>

\* enableVerbosity(v) and then disableVerbosity(v) on test t, one after the
\* other.
EnableDisable(t, v) ==
    /\ Ready
    /\ Callable(t)
    /\ test' = [test EXCEPT ![t] = disableVerbosity(enableVerbosity(@, v), v)]
    /\ last' = [Label("enableDisable", t) EXCEPT !.v = v]
    /\ UNCHANGED << root, maxLength, running, hook >>

\* The caller goes on: the record of the call it made is dropped.
Proceed ==
    /\ last # NoOp
    /\ last' = NoOp
    /\ UNCHANGED << test, root, maxLength, running, hook >>

\* ------------------------------------------------------- specifications
\* A run of the driver over the declared tests.
Next ==
    \/ \E flash \in BOOLEAN : Len(test) < MaxTests /\ Construct(<<1, 1>>, flash)
    \/ \E t \in Tests : Exclude(t)
    \/ \E t \in Tests : Include(t)
    \/ \E t \in Tests : DriverSetup(t)
    \/ \E t \in Tests : DriverLoop(t)
    \/ Return
    \/ \E t \in Tests : DriverTeardown(t)
    \/ \E t \in Tests : DriverFinishExcluded(t)
    \/ \E t \in Tests, s \in Status : SetStatus(t, s)
    \/ \E t \in Tests, ok \in BOOLEAN : SetPassOrFail(t, ok)
    \/ \E t \in Tests : Skip(t)
    \/ \E t \in Tests : Expire(t)
    \/ \E t \in Tests : Fail(t)
    \/ \E t \in Tests : Pass(t)
    \/ \E b \in Tests, a \in Tests, method \in MetaMethods : CheckTest(b, a, method)
    \/ \E b \in Tests, a \in Tests, method \in MetaMethods : AssertTest(b, a, method)
    \/ Proceed

Spec == Init /\ [][Next]_vars

\* The declarations and the configuration calls made before the driver runs.
NextRegistry ==
    \/ \E name \in Names, flash \in BOOLEAN :
          Len(test) < MaxTests /\ Construct(name, flash)
    \/ \E pos \in 0..MaxPos : DisplayMinPosition(pos)
    \/ \E t \in Tests, v \in Flags : EnableVerbosity(t, v)
    \/ \E t \in Tests, v \in Flags : DisableVerbosity(t, v)
    \/ \E t \in Tests : Exclude(t)
    \/ \E t \in Tests : Include(t)
    \/ \E t \in Tests : Skip(t)
    \/ Proceed

SpecRegistry == Init /\ [][NextRegistry]_vars

\* The calls made from outside the hooks: declarations, configuration,
\* queries, and the driver's steps that run no hook body.
NextApi ==
    \/ \E flash \in BOOLEAN : Len(test) < MaxTests /\ Construct(<<1, 1>>, flash)
    \/ \E t \in Tests, v \in Flags : EnableVerbosity(t, v)
    \/ \E t \in Tests, v \in Flags : DisableVerbosity(t, v)
    \/ \E t \in Tests : Exclude(t)
    \/ \E t \in Tests : Include(t)
    \/ \E t \in Tests : Skip(t)
    \/ \E t \in Tests : DriverTeardown(t)
    \/ \E t \in Tests : DriverFinishExcluded(t)
    \/ \E t \in Tests, method \in MetaMethods : Query(t, method)
    \/ Proceed

SpecApi == Init /\ [][NextApi]_vars

\* enableVerbosity and disableVerbosity as functions of the mask: one test is
\* declared and its mask is any m, as enableVerbosity(m) leaves it.
InitVerbosity ==
    \E m \in 0..MaxMask :
        LET m0 == [test |-> << Test >>, root |-> nullptr, maxLength |-> 0]
            m1 == init(m0, 1, <<1, 1>>)
        IN  /\ test = [m1.test EXCEPT ![1] = enableVerbosity(@, m)]
            /\ root = m1.root
            /\ maxLength = m1.maxLength
            /\ running = 0
            /\ hook = "none"
            /\ last = NoOp

NextVerbosity ==
    \/ \E t \in Tests, v \in 0..MaxMask : EnableVerbosity(t, v)
    \/ \E t \in Tests, v \in 0..MaxMask : DisableVerbosity(t, v)
    \/ \E t \in Tests, v \in 0..MaxMask : EnableDisable(t, v)
    \/ Proceed

SpecVerbosity == InitVerbosity /\ [][NextVerbosity]_vars

\* ==================================================================== claims
\* The ten predicates over a status, as the specification lists them.
Holds(method, status) ==
    CASE method = "isDone"       -> status # "Unknown"
      [] method = "isNotDone"    -> status = "Unknown"
      [] method = "isPassed"     -> status = "Passed"
      [] method = "isNotPassed"  -> status # "Passed"
      [] method = "isFailed"     -> status = "Failed"
      [] method = "isNotFailed"  -> status # "Failed"
      [] method = "isSkipped"    -> status = "Skipped"
      [] method = "isNotSkipped" -> status # "Skipped"
      [] method = "isExpired"    -> status = "Expired"
      [] method = "isNotExpired" -> status # "Expired"

\* The status a status-setting call asks for.
Requested(call) ==
    CASE call.op = "setStatus" -> call.arg
      [] call.op = "pass"      -> "Passed"
      [] call.op = "fail"      -> "Failed"
      [] call.op = "skip"      -> "Skipped"
      [] call.op = "expire"    -> "Expired"

StatusCalls == { "setStatus", "pass", "fail", "skip", "expire" }

\* C1 (as stated): status != Unknown iff lifeCycle == Asserted.  This is its
\* "only if" direction, a decided test is in Asserted; the other direction is
\* C2.  The driver's Asserted -> Finished keeps the status, so it fails.
C1_DecidedOnlyInAsserted ==
    \A t \in Tests : test[t].mStatus # "Unknown" => test[t].mLifeCycle = "Asserted"

\* C1 (amended): in every reachable state a test whose status is not Unknown
\* is in lifeCycle Asserted or Finished.
C1_DecidedInAssertedOrFinished ==
    \A t \in Tests :
        test[t].mStatus # "Unknown"
            => test[t].mLifeCycle \in { "Asserted", "Finished" }

\* A test that was decided and then finished by the driver.
C1_Witness ==
    /\ last.op = "teardown"
    /\ test[last.self].mStatus = "Passed"
    /\ test[last.self].mLifeCycle = "Finished"

\* C2: in every reachable state lifeCycle == Asserted implies
\* status != Unknown.  setStatus(Unknown) on an asserted test breaks it.
C2_AssertedImpliesDecided ==
    \A t \in Tests : test[t].mLifeCycle = "Asserted" => test[t].mStatus # "Unknown"

\* C3: setStatus(s) in any lifecycle state: s != Unknown gives status s and
\* lifeCycle Asserted; s == Unknown gives status Unknown and leaves the
\* lifeCycle as it was.  pass, fail, skip and expire are setStatus(Passed),
\* setStatus(Failed), setStatus(Skipped) and setStatus(Expired).
C3_SetStatusEffect ==
    [][ last'.op \in StatusCalls =>
          LET t == last'.self
              s == Requested(last')
          IN  /\ test'[t].mStatus = s
              /\ s # "Unknown" => test'[t].mLifeCycle = "Asserted"
              /\ s = "Unknown" => test'[t].mLifeCycle = test[t].mLifeCycle
              /\ \A u \in Tests \ {t} : test'[u] = test[u] ]_vars

\* setStatus(Unknown) was called on a finished test, which stays Finished.
C3_Witness ==
    /\ last.op = "setStatus"
    /\ last.arg = "Unknown"
    /\ test[last.self].mLifeCycle = "Finished"
    /\ test[last.self].mStatus = "Unknown"

\* C4: after setPassOrFail(true) the status is Passed, after
\* setPassOrFail(false) it is Failed, and in both cases the lifeCycle is
\* Asserted, whatever the test's state before.
C4_SetPassOrFail ==
    last.op = "setPassOrFail" =>
        /\ test[last.self].mStatus = (IF last.ok THEN "Passed" ELSE "Failed")
        /\ test[last.self].mLifeCycle = "Asserted"

\* setPassOrFail(true) was called by a test's own setup hook.
C4_Witness ==
    /\ last.op = "setPassOrFail"
    /\ last.ok
    /\ running = last.self
    /\ hook = "setup"
    /\ test[last.self].mStatus = "Passed"

\* C5: an asserting meta-assertion in a hook of test B whose predicate on the
\* target is false makes B Failed and Asserted, and the hook returns at once.
C5_FailedAssertReturns ==
    [][ ( /\ last'.op = "assertTest"
          /\ ~Holds(last'.arg, test[last'.target].mStatus) )
        => /\ test'[last'.self].mStatus = "Failed"
           /\ test'[last'.self].mLifeCycle = "Asserted"
           /\ running = last'.self
           /\ running' = 0
           /\ hook' = "none" ]_vars

\* A failed, and B's loop asserted that A is passed.
C5_Witness ==
    /\ last.op = "assertTest"
    /\ last.arg = "isPassed"
    /\ last.target # last.self
    /\ test[last.target].mStatus = "Failed"
    /\ test[last.self].mStatus = "Failed"
    /\ running = 0

C7_CheckIsPureRead ==
    [][ last'.op = "checkTest"
        => /\ last'.ok = Holds(last'.arg, test[last'.target].mStatus)
           /\ test' = test
           /\ running = last'.self
           /\ running' = running
           /\ hook' = hook
           /\ root' = root
           /\ maxLength' = maxLength ]_vars

\* B's hook checked that A is done before A asserted anything: false, and B
\* is still running.
C7_Witness ==
    /\ last.op = "checkTest"
    /\ last.arg = "isDone"
    /\ ~last.ok
    /\ last.target # last.self
    /\ test[last.target].mStatus = "Unknown"
    /\ running = last.self

C9_WalkIsConstructionOrder ==
    RegistryWalk = [i \in 1..Len(test) |-> i]

\* Two tests whose names are not in sorted order are registered.
C9_Witness ==
    /\ Len(test) = MaxTests
    /\ test[1].mName = <<2>>
    /\ test[2].mName = <<1, 1>>
    /\ RegistryWalk[1] = 1

\* C10: every constructed test is in the walk of the registry exactly once,
\* from its construction on, and the walk holds nothing else.
C10_EachTestOnce ==
    /\ \A t \in Tests :
          Cardinality({ i \in DOMAIN RegistryWalk : RegistryWalk[i] = t }) = 1
    /\ \A i \in DOMAIN RegistryWalk : RegistryWalk[i] \in Tests

\* The last of the tests was registered through init(const
\* __FlashStringHelper*), under a name another test has too.
C10_Witness ==
    /\ last.op = "construct"
    /\ last.ok
    /\ Len(test) = MaxTests
    /\ test[1].mName = test[Len(test)].mName

\* The six transitions of the life cycle.
Listed == { << "New", "Excluded" >>, << "Excluded", "New" >>, << "New", "Setup" >>,
            << "Setup", "Asserted" >>, << "Excluded", "Finished" >>,
            << "Asserted", "Finished" >> }

\* The calls that end in setStatus.
SettingCalls == StatusCalls \cup { "setPassOrFail", "assertTest" }

C12_FinishedIsTerminal ==
    [][ \A t \in Tests :
          test[t].mLifeCycle = "Finished" => test'[t].mLifeCycle = "Finished" ]_vars

\* C13: the driver's step on a test that is Excluded takes it to Finished,
\* runs no hook and leaves its status; setup(), loop() and teardown() are
\* never called on an Excluded test.
C13_ExcludedGoesToFinished ==
    [][ /\ last'.op = "finishExcluded"
           => /\ test[last'.self].mLifeCycle = "Excluded"
              /\ test'[last'.self].mLifeCycle = "Finished"
              /\ test'[last'.self].mStatus = test[last'.self].mStatus
              /\ running' = 0
              /\ hook' = "none"
        /\ last'.op \in { "setup", "loop", "teardown" }
           => test[last'.self].mLifeCycle \notin { "Excluded", "Finished" }
        /\ \A t \in Tests :
              ( test[t].mLifeCycle = "Excluded" /\ test'[t].mLifeCycle # "Excluded"
                /\ last'.op \notin SettingCalls )
              => /\ test'[t].mLifeCycle \in { "Finished", "New" }
                 /\ last'.op \in { "finishExcluded", "include" } ]_vars

\* An excluded test was finished by the driver, undecided.
C13_Witness ==
    /\ last.op = "finishExcluded"
    /\ test[last.self].mLifeCycle = "Finished"
    /\ test[last.self].mStatus = "Unknown"
    /\ running = 0

C15_DecidedStaysDecided ==
    [][ \A t \in Tests :
          test[t].mStatus # "Unknown" => test'[t].mStatus # "Unknown" ]_vars

\* C16: a test's status changes only in a call that ends in its own
\* setStatus: not in setLifeCycle, exclude, include, enableVerbosity,
\* disableVerbosity, a predicate, or the registration of another test.
C16_OnlySetStatusChangesStatus ==
    [][ \A t \in Tests :
          test'[t].mStatus # test[t].mStatus
            => last'.op \in SettingCalls /\ last'.self = t ]_vars

\* The driver finished a decided test with its verbosity enabled: the status
\* is the one that was set.
C16_Witness ==
    /\ last.op = "teardown"
    /\ test[last.self].mVerbosity # kNone
    /\ test[last.self].mStatus = "Skipped"
    /\ Len(test) = MaxTests

\* The length of the longest name registered.
LongestName ==
    IF Tests = {} THEN 0
    ELSE CHOOSE n \in { Len(test[t].mName) : t \in Tests } :
            \A t \in Tests : Len(test[t].mName) <= n

\* C17 (as stated): once tests are registered the tracker equals the length
\* of the longest name registered, displayMinPosition calls or not.
C17_TrackerIsLongestName ==
    Tests # {} => maxLength = LongestName

\* C17 (amended): the registration of a name of length n sets the tracker to
\* the larger of its value before and n, so a registration never decreases
\* it; displayMinPosition(pos) sets it to pos; no other call changes it.
C17_TrackerSteps ==
    [][ /\ last'.op = "construct"
           => LET n == Len(test'[last'.self].mName)
              IN  /\ maxLength' = (IF maxLength < n THEN n ELSE maxLength)
                  /\ maxLength' >= maxLength
        /\ last'.op = "displayMinPosition" => maxLength' = last'.v
        /\ last'.op \notin { "construct", "displayMinPosition" }
           => maxLength' = maxLength ]_vars

\* A shorter name was registered after the longest one: the tracker stayed.
C17_Witness ==
    /\ last.op = "construct"
    /\ Len(test) = MaxTests
    /\ Len(test[1].mName) = 3
    /\ Len(test[Len(test)].mName) = 1
    /\ maxLength = 3

\* The bits set in a mask of 8 bits.
Bits(n) == { i \in 0..7 : (n \div (2 ^ i)) % 2 = 1 }

\* C18 (as stated): enableVerbosity(v) followed by disableVerbosity(v) gives
\* back the mask there was before, whatever v and the mask.
C18_EnableDisableIsIdentity ==
    [][ last'.op = "enableDisable"
        => test'[last'.self].mVerbosity = test[last'.self].mVerbosity ]_vars

\* C18 (amended): enableVerbosity(v) followed by disableVerbosity(v) leaves
\* the mask with the bits of v cleared; it gives back the mask there was
\* before when no bit of v was set in it.
C18_EnableDisableClears ==
    [][ last'.op = "enableDisable"
        => LET m == test[last'.self].mVerbosity
               r == test'[last'.self].mVerbosity
           IN  /\ Bits(r) = Bits(m) \ Bits(last'.v)
               /\ Bits(m) \cap Bits(last'.v) = {} => r = m ]_vars

\* The round trip was made with the flags 5 on a mask that keeps bit 1.
C18_Witness ==
    /\ last.op = "enableDisable"
    /\ last.v = 5
    /\ test[last.self].mVerbosity = 2

\* C19: for every test exactly one of isNotDone, isPassed, isFailed,
\* isSkipped, isExpired is true; isDone is status != Unknown whatever the
\* lifeCycle; each isNotX is the negation of isX.
C19_PredicatesPartitionStatus ==
    \A t \in Tests :
        LET obj == test[t]
        IN  /\ Cardinality({ p \in { "isNotDone", "isPassed", "isFailed",
                                     "isSkipped", "isExpired" } :
                               Call(p, obj) }) = 1
            /\ isDone(obj) = (obj.mStatus # "Unknown")
            /\ isNotDone(obj) = ~isDone(obj)
            /\ isNotPassed(obj) = ~isPassed(obj)
            /\ isNotFailed(obj) = ~isFailed(obj)
            /\ isNotSkipped(obj) = ~isSkipped(obj)
            /\ isNotExpired(obj) = ~isExpired(obj)

\* A finished test that was never decided (it was excluded) is not done, and
\* another finished test is expired.
C19_Witness ==
    /\ \E t \in Tests : /\ test[t].mLifeCycle = "Finished"
                        /\ test[t].mStatus = "Unknown"
                        /\ isNotDone(test[t])
    /\ \E t \in Tests : /\ test[t].mLifeCycle = "Finished"
                        /\ isExpired(test[t])

====
